---- MODULE Spec2Model ----
(***************************************************************************)
(* Model of the service worker of comic_pwa: an install handler that       *)
(* pre-caches a fixed asset list into the cache 'pwa-cache-v1', and a      *)
(* fetch handler that answers cache-first with a network fallback.         *)
(* The Cache / CacheStorage / fetch / ExtendableEvent calls the two        *)
(* handlers make are modelled by what they do to the state.                *)
(***************************************************************************)
EXTENDS Integers, Sequences, FiniteSets, TLC

\* ---------------------------------------------------------------- bounds
MaxInstalls == 2       \* install attempts (worker generations) explored
MaxFetches == 2        \* intercepted requests explored
MaxLiveFetches == 1    \* intercepted requests explored under fairness
MaxDigit == 2          \* largest digit of a number typed into the exercise

\* ------------------------------------------------------ program constants
cacheName == "pwa-cache-v1"
assets == << "/", "/static/app.js", "/static/manifest.json" >>

AssetSet == { assets[k] : k \in 1..Len(assets) }

\* ------------------------------------------------------- values in flight
\* a value carries the fetch that produced it (by): every fetch yields a
\* Response object of its own
NoFetch == << "none", 0 >>
undefined == [kind |-> "undefined", url |-> "", ok |-> FALSE, by |-> NoFetch]
pending == [kind |-> "pending", url |-> "", ok |-> FALSE, by |-> NoFetch]
NetworkError == [kind |-> "error", url |-> "network", ok |-> FALSE, by |-> NoFetch]
StoreError == [kind |-> "error", url |-> "store", ok |-> FALSE, by |-> NoFetch]

Response(u, isOk, by) == [kind |-> "response", url |-> u, ok |-> isOk, by |-> by]

\* a request is a method and a URL
Request(m, u) == [method |-> m, url |-> u]

\* the requests a controlled page issues
PageRequests ==
  { Request("GET", "/static/app.js"), Request("GET", "/not-in-manifest.png"),
    Request("POST", "/") }

\* what fetch(request) can settle to: a response of any status, or an error
NetworkOutcomes(req, by) ==
  { Response(req.url, TRUE, by), Response(req.url, FALSE, by), NetworkError }

VARIABLES
  cacheStorage,  \* the origin's CacheStorage: sequence of [name, list]
  gen,           \* number of install events delivered so far
  ipc,           \* per generation: position of the install handler's promise
  wstate,        \* per generation: lifecycle state of that worker
  active,        \* generation of the active worker, 0 if none
  fetched,       \* current install: asset -> response fetched by addAll
  anyFailed,     \* current install: did an asset fetch of addAll fail
  okBefore,      \* current install: assets fetched when that failure came
  storeFailed,   \* current install: did the cache storage fail
  fe,            \* fetch events: sequence of invocation records
  mainpc,        \* Main.main: position in the number exercise
  numbers,       \* Main.main: the parsed input numbers
  cursor,        \* Main.main: index of the for-each loop over numbers
  compare,       \* Main.main: the running largest value
  printed        \* Main.main: the value printed as the largest

\* the number exercise shares nothing with the service worker
mainVars == << mainpc, numbers, cursor, compare, printed >>

vars == << cacheStorage, gen, ipc, wstate, active, fetched, anyFailed,
           okBefore, storeFailed, fe, mainVars >>

\* ------------------------------------------------------ cache operations
\* "request matches cached item": GET only, URLs equal
RequestMatches(req, entry) ==
  /\ req.method = "GET"
  /\ entry.req.url = req.url

RECURSIVE QueryCache(_, _)
\* Cache.match: the response of the first matching entry of a list
QueryCache(list, req) ==
  IF list = << >> THEN undefined
  ELSE IF RequestMatches(req, Head(list)) THEN Head(list).resp
  ELSE QueryCache(Tail(list), req)

RECURSIVE CachesMatch(_, _)
\* CacheStorage.match: the first hit over the caches in creation order
CachesMatch(cs, req) ==
  IF cs = << >> THEN undefined
  ELSE IF QueryCache(Head(cs).list, req) # undefined
       THEN QueryCache(Head(cs).list, req)
  ELSE CachesMatch(Tail(cs), req)

HasCache(cs, name) == \E k \in 1..Len(cs) : cs[k].name = name

\* CacheStorage.open: creates the cache when it is absent
CachesOpen(cs, name) ==
  IF HasCache(cs, name) THEN cs
  ELSE Append(cs, [name |-> name, list |-> << >>])

\* the request-response list of the named cache
ListOf(cs, name) ==
  IF HasCache(cs, name)
  THEN cs[CHOOSE k \in 1..Len(cs) : cs[k].name = name].list
  ELSE << >>

store == ListOf(cacheStorage, cacheName)

\* (mutant) a put that leaves the entries already there in place
CachePutKeepOld(list, req, resp) ==
  Append(list, [req |-> req, resp |-> resp])

\* Cache.put of one entry: matching entries are removed, the new one appended
CachePut(list, req, resp) ==
  Append(SelectSeq(list, LAMBDA e : ~RequestMatches(req, e)),
         [req |-> req, resp |-> resp])

\* (mutant) only the first path is stored, as cache.add(paths[0]) would
BatchPutFirstOnly(list, paths, got) ==
  IF paths = << >> THEN list
  ELSE CachePut(list, Request("GET", Head(paths)), got[Head(paths)])

RECURSIVE BatchPut(_, _, _)
\* the batch of puts cache.addAll(paths) performs once every fetch is in
BatchPut(list, paths, got) ==
  IF paths = << >> THEN list
  ELSE BatchPut(CachePut(list, Request("GET", Head(paths)), got[Head(paths)]),
                Tail(paths), got)

\* cache.addAll(assets) on the named cache
AddAll(cs, name, got) ==
  [k \in 1..Len(cs) |->
     IF cs[k].name = name
     THEN [name |-> name, list |-> BatchPut(cs[k].list, assets, got)]
     ELSE cs[k]]

\* addAll has no response yet
NoneFetched == [a \in AssetSet |-> pending]

\* ---------------------------------------------------------------- Init
Init ==
  /\ cacheStorage = << >>
  /\ gen = 0
  /\ ipc = << >>
  /\ wstate = << >>
  /\ active = 0
  /\ fetched = NoneFetched
  /\ anyFailed = FALSE
  /\ okBefore = 0
  /\ storeFailed = FALSE
  /\ fe = << >>
  /\ mainpc = "idle"
  /\ numbers = << >>
  /\ cursor = 0
  /\ compare = 0
  /\ printed = 0


\* ------------------------------------------------- install handler (8-12)
\* (mutant) addAll that takes whatever a fetch settles to
AddAllAcceptsAny(out) == TRUE

\* addAll keeps going only on a response with an ok status
AddAllAccepts(out) == out.kind = "response" /\ out.ok

\* (mutant) the handler without event.waitUntil: the install event is over
\* when the handler returns, whatever becomes of p
WaitUntilMissing(p) == TRUE

\* event.waitUntil(p): the install event lasts until p settles, and the
\* worker may leave "installing" for "activated" only when p is fulfilled
WaitUntil(p) == p = "fulfilled"

Installing == gen > 0 /\ wstate[gen] = "installing"

\* the runtime delivers 'install' to a new worker; the handler calls
\* caches.open(cacheName) and hands the promise chain to waitUntil
InstallEvent ==
  /\ gen < MaxInstalls
  /\ ~Installing
  /\ gen' = gen + 1
  /\ ipc' = Append(ipc, "open")
  /\ wstate' = Append(wstate, "installing")
  /\ anyFailed' = FALSE
  /\ okBefore' = 0
  /\ storeFailed' = FALSE
  /\ fetched' = NoneFetched
  /\ UNCHANGED << cacheStorage, active, fe >>
  /\ UNCHANGED mainVars

\* caches.open(cacheName) settles: the cache exists afterwards and
\* cache.addAll(assets) starts, or the storage is unavailable
InstallOpen ==
  /\ Installing
  /\ ipc[gen] = "open"
  /\ \/ /\ cacheStorage' = CachesOpen(cacheStorage, cacheName)
        /\ ipc' = [ipc EXCEPT ![gen] = "addAll"]
        /\ UNCHANGED storeFailed
     \/ /\ ipc' = [ipc EXCEPT ![gen] = "rejected"]
        /\ storeFailed' = TRUE
        /\ UNCHANGED cacheStorage
  /\ UNCHANGED << gen, wstate, active, fetched, anyFailed, okBefore, fe >>
  /\ UNCHANGED mainVars

NumFetched == Cardinality({ a \in AssetSet : fetched[a] # pending })

\* one of addAll's fetches settles: addAll keeps its response, or rejects
\* at once and drops the fetches and responses it had
InstallFetched(a) ==
  /\ Installing
  /\ ipc[gen] = "addAll"
  /\ fetched[a] = pending
  /\ \E out \in NetworkOutcomes(Request("GET", a), << "install", gen >>) :
       /\ anyFailed' = (anyFailed \/ out = NetworkError)
       /\ IF AddAllAccepts(out)
          THEN /\ fetched' = [fetched EXCEPT ![a] = out]
               /\ UNCHANGED << ipc, okBefore >>
          ELSE /\ fetched' = NoneFetched
               /\ ipc' = [ipc EXCEPT ![gen] = "rejected"]
               /\ okBefore' = NumFetched
  /\ UNCHANGED << cacheStorage, gen, wstate, active, storeFailed, fe >>
  /\ UNCHANGED mainVars

\* every fetch of addAll is in: the batch of puts commits, or the storage
\* fails and nothing is written
InstallStore ==
  /\ Installing
  /\ ipc[gen] = "addAll"
  /\ \A a \in AssetSet : fetched[a] # pending
  /\ \/ /\ cacheStorage' = AddAll(cacheStorage, cacheName, fetched)
        /\ ipc' = [ipc EXCEPT ![gen] = "fulfilled"]
        /\ UNCHANGED << storeFailed, fetched >>
     \/ /\ ipc' = [ipc EXCEPT ![gen] = "rejected"]
        /\ storeFailed' = TRUE
        /\ fetched' = NoneFetched
        /\ UNCHANGED cacheStorage
  /\ UNCHANGED << gen, wstate, active, anyFailed, okBefore, fe >>
  /\ UNCHANGED mainVars

\* the install event is over and its promise fulfilled: the worker becomes
\* the active worker and the one it replaces becomes redundant
Activate ==
  /\ Installing
  /\ WaitUntil(ipc[gen])
  /\ wstate' = [g \in 1..gen |->
                  IF g = gen THEN "activated"
                  ELSE IF g = active THEN "redundant" ELSE wstate[g]]
  /\ active' = gen
  /\ UNCHANGED << cacheStorage, gen, ipc, fetched, anyFailed, okBefore,
                  storeFailed, fe >>
  /\ UNCHANGED mainVars

\* the promise given to waitUntil rejected: the worker is discarded
InstallFailed ==
  /\ Installing
  /\ ipc[gen] = "rejected"
  /\ wstate' = [wstate EXCEPT ![gen] = "redundant"]
  /\ UNCHANGED << cacheStorage, gen, ipc, active, fetched, anyFailed,
                  okBefore, storeFailed, fe >>
  /\ UNCHANGED mainVars

\* --------------------------------------------------- fetch handler (14-18)
\* (mutant) network-first: res => fetch(event.request)
ThenCallbackNetworkFirst(res) ==
  [pc |-> "net", result |-> pending, netCalls |-> 1]

\* (mutant) cache-only: res => res
ThenCallbackCacheOnly(res) ==
  [pc |-> "done", result |-> res, netCalls |-> 0]

\* res => res || fetch(event.request)
ThenCallback(res) ==
  IF res # undefined
  THEN [pc |-> "done", result |-> res, netCalls |-> 0]
  ELSE [pc |-> "net", result |-> pending, netCalls |-> 1]

\* (mutant) .catch(() => fetch(event.request)) on the lookup
MatchRejectedFallsBack ==
  [pc |-> "net", result |-> pending, netCalls |-> 1]

\* caches.match rejected: no handler is attached, the chain rejects
MatchRejected ==
  [pc |-> "done", result |-> StoreError, netCalls |-> 0]

\* (mutant) a network error is replaced by a made-up offline response
FetchSettledFallback(out) ==
  IF out = NetworkError
  THEN [pc |-> "done", result |-> Response("/offline", TRUE, NoFetch)]
  ELSE [pc |-> "done", result |-> out]

\* (mutant) a network error is swallowed and the request never answered
FetchSettledSwallows(out) ==
  IF out = NetworkError
  THEN [pc |-> "hung", result |-> pending]
  ELSE [pc |-> "done", result |-> out]

\* the promise of fetch(event.request) settles the chain with its outcome
FetchSettled(out) == [pc |-> "done", result |-> out]

\* what the named cache holds for a request at this moment
Held(req) ==
  IF \E k \in 1..Len(store) : store[k].req = req
  THEN store[CHOOSE k \in 1..Len(store) : store[k].req = req].resp
  ELSE undefined

\* the runtime delivers 'fetch' for a request of a controlled page; the
\* handler calls caches.match(event.request) and respondWith(chain)
FetchEvent(req) ==
  /\ active # 0
  /\ Len(fe) < MaxFetches
  /\ fe' = Append(fe, [worker |-> active, req |-> req, pc |-> "match",
                       lookup |-> "none", held |-> undefined,
                       result |-> pending, netCalls |-> 0,
                       netOut |-> pending])
  /\ UNCHANGED << cacheStorage, gen, ipc, wstate, active, fetched,
                  anyFailed, okBefore, storeFailed >>
  /\ UNCHANGED mainVars

\* caches.match settles and the then-callback runs
FetchMatched(i) ==
  /\ i \in 1..Len(fe)
  /\ fe[i].pc = "match"
  /\ \/ LET res == CachesMatch(cacheStorage, fe[i].req)
            nxt == ThenCallback(res)
        IN fe' = [fe EXCEPT ![i].pc = nxt.pc,
                            ![i].result = nxt.result,
                            ![i].netCalls = nxt.netCalls,
                            ![i].lookup = "ok",
                            ![i].held = Held(fe[i].req)]
     \/ fe' = [fe EXCEPT ![i].pc = MatchRejected.pc,
                         ![i].result = MatchRejected.result,
                         ![i].netCalls = MatchRejected.netCalls,
                         ![i].lookup = "failed",
                         ![i].held = Held(fe[i].req)]
  /\ UNCHANGED << cacheStorage, gen, ipc, wstate, active, fetched,
                  anyFailed, okBefore, storeFailed >>
  /\ UNCHANGED mainVars

\* (mutant) the handler also puts an ok network response into the cache
FetchRepliedCaching(i) ==
  /\ i \in 1..Len(fe)
  /\ fe[i].pc = "net"
  /\ \E out \in NetworkOutcomes(fe[i].req, << "fetch", i >>) :
       /\ fe' = [fe EXCEPT ![i].pc = "done",
                           ![i].result = out,
                           ![i].netOut = out]
       /\ cacheStorage' =
            IF out.kind = "response" /\ out.ok /\ fe[i].req.method = "GET"
            THEN [k \in 1..Len(cacheStorage) |->
                    IF cacheStorage[k].name = cacheName
                    THEN [name |-> cacheName,
                          list |-> CachePut(cacheStorage[k].list, fe[i].req, out)]
                    ELSE cacheStorage[k]]
            ELSE cacheStorage
  /\ UNCHANGED << gen, ipc, wstate, active, fetched, anyFailed, okBefore,
                  storeFailed >>
  /\ UNCHANGED mainVars

\* (mutant) one network reply settles every invocation waiting for the
\* same request, as a handler sharing one fetch among them would
FetchRepliedCoalesced(i) ==
  /\ i \in 1..Len(fe)
  /\ fe[i].pc = "net"
  /\ \E out \in NetworkOutcomes(fe[i].req, << "fetch", i >>) :
       fe' = [j \in 1..Len(fe) |->
                IF j = i
                THEN [fe[j] EXCEPT !.pc = "done", !.result = out, !.netOut = out]
                ELSE IF fe[j].pc = "net" /\ fe[j].req = fe[i].req
                THEN [fe[j] EXCEPT !.pc = "done", !.result = out]
                ELSE fe[j]]
  /\ UNCHANGED << cacheStorage, gen, ipc, wstate, active, fetched,
                  anyFailed, okBefore, storeFailed >>
  /\ UNCHANGED mainVars

\* the network answers the fetch the handler issued
FetchReplied(i) ==
  /\ i \in 1..Len(fe)
  /\ fe[i].pc = "net"
  /\ \E out \in NetworkOutcomes(fe[i].req, << "fetch", i >>) :
       LET nxt == FetchSettled(out)
       IN fe' = [fe EXCEPT ![i].pc = nxt.pc,
                           ![i].result = nxt.result,
                           ![i].netOut = out]
  /\ UNCHANGED << cacheStorage, gen, ipc, wstate, active, fetched,
                  anyFailed, okBefore, storeFailed >>
  /\ UNCHANGED mainVars

\* ---------------------------------------------------------- specification
Next ==
  \/ InstallEvent
  \/ InstallOpen
  \/ \E a \in AssetSet : InstallFetched(a)
  \/ InstallStore
  \/ Activate
  \/ InstallFailed
  \/ \E req \in PageRequests : FetchEvent(req)
  \/ \E i \in 1..MaxFetches : FetchMatched(i)
  \/ \E i \in 1..MaxFetches : FetchReplied(i)

Spec == Init /\ [][Next]_vars

\* the event loop runs every settled promise's continuation, and a fetch
\* the network has taken eventually settles
FairNext == Next /\ Len(fe') <= MaxLiveFetches

FairSpec ==
  /\ Init
  /\ [][FairNext]_vars
  /\ \A i \in 1..MaxFetches : WF_vars(FetchMatched(i))
  /\ \A i \in 1..MaxFetches : WF_vars(FetchReplied(i))

\* ------------------------------------------- other caches of the origin
\* a cache of the same origin that this worker does not name
OtherCache == "other-cache"

\* the URLs other code of the origin caches
OtherUrls == { "/static/app.js", "/not-in-manifest.png" }

\* Cache.put on the cache called name
PutIn(cs, name, req, resp) ==
  [k \in 1..Len(cs) |->
     IF cs[k].name = name
     THEN [name |-> name, list |-> CachePut(cs[k].list, req, resp)]
     ELSE cs[k]]

\* other code of the origin (another script, an earlier worker) opens its
\* own cache and puts a response there; caches.match searches that cache too
ForeignPut(u) ==
  /\ QueryCache(ListOf(cacheStorage, OtherCache), Request("GET", u)) = undefined
  /\ cacheStorage' =
       PutIn(CachesOpen(cacheStorage, OtherCache), OtherCache,
             Request("GET", u), Response(u, TRUE, << "foreign", 0 >>))
  /\ UNCHANGED << gen, ipc, wstate, active, fetched, anyFailed, okBefore,
                  storeFailed, fe >>
  /\ UNCHANGED mainVars

OriginNext ==
  \/ Next
  \/ \E u \in OtherUrls : ForeignPut(u)

\* the worker in an origin whose CacheStorage other code uses as well
OriginSpec == Init /\ [][OriginNext]_vars

\* ------------------------------- the number exercise (app.js 21-52)
\* a number as typed: an optional minus sign and one decimal digit
Tokens == [neg : BOOLEAN, digit : 0..MaxDigit]

\* Integer.parseInt of a token
ParseInt(t) == IF t.neg THEN 0 - t.digit ELSE t.digit

\* the line is read, split at the commas and each part parsed; the running
\* largest value starts at 0
MainRead ==
  /\ mainpc = "idle"
  /\ \E parts \in [1..3 -> Tokens] :
       numbers' = [k \in 1..3 |-> ParseInt(parts[k])]
  /\ compare' = 0
  /\ cursor' = 1
  /\ mainpc' = "loop"
  /\ UNCHANGED << cacheStorage, gen, ipc, wstate, active, fetched, anyFailed,
                  okBefore, storeFailed, fe, printed >>

\* one round of  for (int num : numbers) if (num > compare) compare = num
MainLoop ==
  /\ mainpc = "loop"
  /\ cursor <= Len(numbers)
  /\ compare' = IF numbers[cursor] > compare THEN numbers[cursor] ELSE compare
  /\ cursor' = cursor + 1
  /\ UNCHANGED << cacheStorage, gen, ipc, wstate, active, fetched, anyFailed,
                  okBefore, storeFailed, fe, mainpc, numbers, printed >>

\* the loop is over: compare is printed as the largest number
MainPrint ==
  /\ mainpc = "loop"
  /\ cursor > Len(numbers)
  /\ printed' = compare
  /\ mainpc' = "done"
  /\ UNCHANGED << cacheStorage, gen, ipc, wstate, active, fetched, anyFailed,
                  okBefore, storeFailed, fe, numbers, cursor, compare >>

MainNext ==
  \/ MainRead
  \/ MainLoop
  \/ MainPrint

MainSpec == Init /\ [][MainNext]_vars

TypeOK ==
  /\ gen \in 0..MaxInstalls
  /\ active \in 0..gen
  /\ Len(fe) <= MaxFetches

\* ------------------------------------------------------------ properties
Invocations == 1..Len(fe)

Generations == 1..gen

\* the named cache held a response for the request when it was looked up
LookedUpPresent(i) == fe[i].lookup = "ok" /\ fe[i].held # undefined

\* the named cache held nothing for the request when it was looked up
LookedUpAbsent(i) == fe[i].lookup = "ok" /\ fe[i].held = undefined

\* what one install into a fresh, empty cache leaves there
FreshInstall(got) ==
  [k \in 1..Len(assets) |->
     [req |-> Request("GET", assets[k]), resp |-> got[assets[k]]]]

\* C1: a request whose lookup finds a stored response is answered with
\* exactly that response, at once, and no network fetch is made for it.
C1_CacheHitServedWithoutNetwork ==
  \A i \in Invocations :
    LookedUpPresent(i) =>
      /\ fe[i].pc = "done"
      /\ fe[i].result = fe[i].held
      /\ fe[i].netCalls = 0
      /\ fe[i].netOut = pending

C1_Witness ==
  \E i \in Invocations :
    /\ LookedUpPresent(i)
    /\ fe[i].pc = "done"
    /\ gen = 2 /\ ipc[2] = "fulfilled"

\* C2: a request whose lookup finds nothing stored causes exactly one
\* network fetch, and the requester gets that fetch's outcome unchanged.
C2_CacheMissFetchesOnce ==
  \A i \in Invocations :
    LookedUpAbsent(i) =>
      /\ fe[i].netCalls = 1
      /\ fe[i].pc \in {"net", "done"}
      /\ fe[i].pc = "done" =>
           /\ fe[i].netOut \in NetworkOutcomes(fe[i].req, << "fetch", i >>)
           /\ fe[i].result = fe[i].netOut

C2_Witness ==
  \E i \in Invocations :
    /\ LookedUpAbsent(i)
    /\ fe[i].pc = "done"
    /\ fe[i].result.kind = "response"

\* C3: once an install has completed successfully, looking up each manifest
\* asset in the store yields the response fetched for it by that install.
C3_InstalledAssetsLookUp ==
  (gen > 0 /\ ipc[gen] = "fulfilled") =>
    \A a \in AssetSet :
      /\ fetched[a].kind = "response"
      /\ QueryCache(store, Request("GET", a)) = fetched[a]
      /\ CachesMatch(cacheStorage, Request("GET", a)) = fetched[a]

C3_Witness ==
  /\ gen = 2
  /\ ipc[1] = "fulfilled"
  /\ ipc[2] = "fulfilled"
  /\ \A a \in AssetSet : fetched[a].by = << "install", 2 >>

\* C4: when a fetch of a manifest asset fails during an install, that
\* install reports failure and its worker is never activated.
C4_FailedAssetFailsInstall ==
  /\ anyFailed =>
       /\ ipc[gen] = "rejected"
       /\ wstate[gen] \in {"installing", "redundant"}
       /\ active # gen
  /\ \A g \in Generations :
       ipc[g] = "rejected" => wstate[g] \in {"installing", "redundant"}

C4_Witness ==
  /\ anyFailed
  /\ okBefore = Len(assets) - 1
  /\ wstate[gen] = "redundant"

\* C5: a worker answers intercepted requests only after its own install
\* unit has completed.
C5_InstallPrecedesServing ==
  /\ \A i \in Invocations : ipc[fe[i].worker] = "fulfilled"
  /\ active # 0 => ipc[active] = "fulfilled"
  /\ \A g \in Generations : wstate[g] = "activated" => ipc[g] = "fulfilled"

C5_Witness ==
  \E i \in Invocations :
    /\ fe[i].pc = "done"
    /\ fe[i].result.kind = "response"
    /\ fe[i].netCalls = 0

\* C7: no step of Handle Fetch (the steps that start or advance an
\* invocation) changes the contents of the cache storage.
C7_FetchLeavesStoreAlone ==
  [][fe' # fe => cacheStorage' = cacheStorage]_vars

C7_Witness ==
  \E i, j \in Invocations :
    /\ i < j
    /\ fe[i].req = fe[j].req
    /\ LookedUpAbsent(i) /\ fe[i].result.kind = "response" /\ fe[i].result.ok
    /\ LookedUpAbsent(j)

\* C8: a miss whose network fetch fails is answered with that failure: no
\* substitute response, no second fetch.
C8_NetworkFailurePropagates ==
  \A i \in Invocations :
    (fe[i].pc = "done" /\ fe[i].netOut = NetworkError) =>
      /\ fe[i].result = NetworkError
      /\ fe[i].netCalls = 1

C8_Witness ==
  \E i \in Invocations :
    /\ LookedUpAbsent(i)
    /\ fe[i].pc = "done"
    /\ fe[i].netOut = NetworkError

\* C9: a failure of the cache storage fails the operation it happens in:
\* the install is rejected and its worker not activated, and Handle Fetch
\* ends in that failure, without a response.
C9_StoreFailurePropagates ==
  /\ storeFailed =>
       /\ ipc[gen] = "rejected"
       /\ wstate[gen] \in {"installing", "redundant"}
       /\ active # gen
  /\ \A i \in Invocations :
       fe[i].lookup = "failed" =>
         /\ fe[i].pc = "done"
         /\ fe[i].result = StoreError
         /\ fe[i].netCalls = 0

C9_Witness ==
  /\ storeFailed /\ wstate[gen] = "redundant"
  /\ \E i \in Invocations : fe[i].lookup = "failed" /\ fe[i].pc = "done"

\* C10: after a second successful install the store holds exactly what one
\* install into a fresh store leaves there for the same fetched responses.
C10_InstallIdempotent ==
  (/\ gen > 0
   /\ ipc[gen] = "fulfilled"
   /\ Cardinality({ g \in Generations : ipc[g] = "fulfilled" }) >= 2) =>
     /\ store = FreshInstall(fetched)
     /\ Len(cacheStorage) = 1

C10_Witness ==
  /\ gen > 0
  /\ ipc[gen] = "fulfilled"
  /\ Cardinality({ g \in Generations : ipc[g] = "fulfilled" }) >= 2
  /\ store = FreshInstall(fetched)

\* the invocation was answered from the cache
AnsweredFromCache(i) ==
  /\ fe[i].lookup = "ok"
  /\ fe[i].netCalls = 0
  /\ fe[i].result.kind = "response"

\* the invocation was answered with the outcome of a network attempt
AnsweredFromNetwork(i) ==
  /\ fe[i].lookup = "ok"
  /\ fe[i].netCalls = 1
  /\ fe[i].result = fe[i].netOut
  /\ fe[i].result.kind \in {"response", "error"}

\* the invocation ended in the failure of its store lookup
AnsweredStoreFailure(i) ==
  /\ fe[i].lookup = "failed"
  /\ fe[i].netCalls = 0
  /\ fe[i].result = StoreError

Answered(i) == i \in Invocations /\ fe[i].pc = "done"

\* C6 (as stated): every finished invocation ended as a cached response or
\* as a network attempt, and in no other way.
C6_OnlyCacheOrNetwork ==
  \A i \in Invocations :
    fe[i].pc = "done" => (AnsweredFromCache(i) \/ AnsweredFromNetwork(i))

\* C6 (amended): every intercepted request is eventually answered, and the
\* answer is a cached response, the outcome of one network attempt, or the
\* failure of the store lookup.
C6_EventuallyAnswered ==
  \A i \in 1..MaxFetches :
    (i \in Invocations) ~>
      (/\ Answered(i)
       /\ \/ AnsweredFromCache(i)
          \/ AnsweredFromNetwork(i)
          \/ AnsweredStoreFailure(i))

C6_Witness ==
  \E i \in Invocations :
    /\ Answered(i)
    /\ AnsweredStoreFailure(i)
    /\ gen = 2

\* C11: Handle Fetch consults the named cache only: a request the named
\* cache does not hold goes to the network, whatever other caches hold, and
\* a hit is answered with the named cache's response.
C11_NamedStoreOnly ==
  \A i \in Invocations :
    /\ LookedUpAbsent(i) => fe[i].netCalls = 1
    /\ (LookedUpPresent(i) /\ fe[i].pc = "done") => fe[i].result = fe[i].held

\* C12: every key of the named store is the GET request of a manifest
\* path, whatever installs (successful or failed) and fetches have run.
C12_StoreKeysWithinManifest ==
  \A k \in 1..Len(store) :
    /\ store[k].req.method = "GET"
    /\ store[k].req.url \in AssetSet

C12_Witness ==
  /\ Len(store) = Len(assets)
  /\ \E g \in Generations : ipc[g] = "rejected"
  /\ \E i \in Invocations :
       /\ fe[i].req.url \notin AssetSet
       /\ fe[i].pc = "done"
       /\ fe[i].result.kind = "response"
       /\ fe[i].result.ok

\* what the invocation returns when it runs alone against the store it
\* looked up and the network outcome it got
AloneResult(i) ==
  IF fe[i].lookup = "failed" THEN StoreError
  ELSE IF fe[i].held # undefined THEN fe[i].held
  ELSE fe[i].netOut

\* C13: interleaved invocations are independent: each one returns what it
\* would return alone, and a step of one invocation changes neither the
\* store nor the record (and so the response) of any other invocation.
C13_InvocationsIndependent ==
  /\ [](\A i \in Invocations :
          fe[i].pc = "done" => fe[i].result = AloneResult(i))
  /\ [][\A i \in 1..Len(fe) :
          fe'[i] # fe[i] =>
            /\ cacheStorage' = cacheStorage
            /\ \A j \in 1..Len(fe) : j # i => fe'[j] = fe[j]]_vars

C13_Witness ==
  /\ Len(fe) >= 2
  /\ fe[1].req = fe[2].req
  /\ fe[1].pc = "net"
  /\ fe[2].pc = "done"
  /\ fe[2].result.kind = "response"
  /\ fe[2].netCalls = 1

\* the largest of the numbers entered
Largest(ns) ==
  CHOOSE m \in { ns[k] : k \in 1..Len(ns) } :
    \A k \in 1..Len(ns) : m >= ns[k]

\* C14: the value the exercise prints as the largest is the maximum of the
\* three numbers entered.
C14_PrintsLargest ==
  mainpc = "done" => printed = Largest(numbers)
====
